---- MODULE Spec2Model ----
(***************************************************************************)
(* Model of the vehicle-inventory MCP demo:                                *)
(*   data_source.py  the Inventory Store (FastAPI handlers over VEHICLES)  *)
(*   mcp_server.py   the Tool Adapter (five tools over the store's HTTP)   *)
(*   mcp_client.py   the Conversation Driver (the tool-call loop of main)  *)
(*                                                                         *)
(* Python strings that the code lower-cases or searches are sequences of   *)
(* one-character strings; vehicle ids and fixed labels are TLA+ strings.   *)
(* Python values that may be None are records with a "tag" field.          *)
(***************************************************************************)
EXTENDS Naturals, Sequences, FiniteSets, TLC

VARIABLES
    store,            \* data_source.VEHICLES
    lastCall,         \* the tool invocation executed last (name and arguments)
    lastRequests,     \* the HTTP requests that invocation sent, in order
    lastResult,       \* what that invocation gave back: a text, or a raised exception
    pc,               \* the driver's position in main()
    response,         \* main's `response`
    conversation,     \* main's `conversation_contents`
    final_answer,     \* main's `final_answer`
    sent,             \* the `contents` of the model query issued last
    apiError,         \* the model call issued last raised
    log,              \* every turn that occurred, in order of occurrence
    user_query,       \* main's `user_query`
    nQueries,         \* model queries issued so far
    nTools,           \* tool executions completed so far
    sessions,         \* concurrent change_status invocations: where each one stands
    applied,          \* the PATCH requests the store handled, in the order it handled them
    schema,           \* a tool's inputSchema as given to clean_schema
    cleaned           \* what clean_schema returned for it

toolVars == <<store, lastCall, lastRequests, lastResult>>
driverVars == <<pc, response, conversation, final_answer, sent, apiError, log, user_query,
                nQueries, nTools>>
otherVars == <<sessions, applied, schema, cleaned>>
vars == <<store, lastCall, lastRequests, lastResult,
          pc, response, conversation, final_answer, sent, apiError, log, user_query,
          nQueries, nTools, sessions, applied, schema, cleaned>>

-----------------------------------------------------------------------------
(* Python values *)

PyNone == [tag |-> "None"]
PyStr(s) == [tag |-> "str", s |-> s]
\* truthiness of an Optional[str]: None and "" are falsy
Truthy(v) == v.tag = "str" /\ v.s # <<>>

UpperChars == <<"A","B","C","D","E","F","G","H","I","J","K","L","M",
                "N","O","P","Q","R","S","T","U","V","W","X","Y","Z">>
LowerChars == <<"a","b","c","d","e","f","g","h","i","j","k","l","m",
                "n","o","p","q","r","s","t","u","v","w","x","y","z">>

UpperToLower ==
    [c \in {UpperChars[i] : i \in 1..Len(UpperChars)} |->
        LowerChars[CHOOSE i \in 1..Len(UpperChars) : UpperChars[i] = c]]

\* str.lower() on one character
LowerChar(c) == IF c \in DOMAIN UpperToLower THEN UpperToLower[c] ELSE c

\* str.lower()
Lower(s) == [i \in 1..Len(s) |-> LowerChar(s[i])]

\* Python's `a in b` on strings
Contains(b, a) ==
    \E i \in 0..Len(b) :
        /\ i + Len(a) <= Len(b)
        /\ SubSeq(b, i + 1, i + Len(a)) = a

-----------------------------------------------------------------------------
(* data_source.py: the Inventory Store *)

IdOrder == <<"101", "102", "103", "104", "105">>

InPort == <<"I","n"," ","P","o","r","t">>
Shipped == <<"S","h","i","p","p","e","d">>

VEHICLES ==
    ("101" :> [make |-> <<"T","o","y","o","t","a">>, model |-> <<"H","i","A","c","e">>,
               status |-> InPort, destination |-> <<"C","o","l","o","m","b","o">>]) @@
    ("102" :> [make |-> <<"H","o","n","d","a">>, model |-> <<"F","i","t">>,
               status |-> Shipped, destination |-> <<"K","a","n","d","y">>]) @@
    ("103" :> [make |-> <<"F","o","r","d">>, model |-> <<"T","r","a","n","s","i","t">>,
               status |-> InPort, destination |-> <<"G","a","l","l","e">>]) @@
    ("104" :> [make |-> <<"T","e","s","l","a">>, model |-> <<"M","o","d","e","l"," ","X">>,
               status |-> Shipped, destination |-> <<"J","a","f","f","n","a">>]) @@
    ("105" :> [make |-> <<"N","i","s","s","a","n">>, model |-> <<"N","V","2","0","0">>,
               status |-> InPort,
               destination |-> <<"T","r","i","n","c","o","m","a","l","e","e">>])

\* {"id": vid, **details}
WithId(vid, details) ==
    [id |-> vid, make |-> details.make, model |-> details.model,
     status |-> details.status, destination |-> details.destination]

\* the ids of the dict in iteration (insertion) order
StoreIds(st) == SelectSeq(IdOrder, LAMBDA vid : vid \in DOMAIN st)

\* GET /vehicles
list_vehicles_store(st) ==
    LET ids == StoreIds(st)
    IN  [status |-> 200, body |-> [i \in 1..Len(ids) |-> WithId(ids[i], st[ids[i]])]]

\* the term is lower-cased, the field is not
match_FieldNotLowered(value, term) == Contains(value, Lower(term))

\* search_vehicles.match
match(value, term) == Contains(Lower(value), Lower(term))

FilterNames == {"make", "model", "status", "destination"}

\* a query parameter that was not sent is None in the handler
QueryParam(params, name) == IF name \in DOMAIN params THEN PyStr(params[name]) ELSE PyNone

\* the body of the for loop: TRUE when no `continue` is taken
search_keeps(info, params) ==
    LET make == QueryParam(params, "make")
        model == QueryParam(params, "model")
        status == QueryParam(params, "status")
        destination == QueryParam(params, "destination")
    IN  IF Truthy(make) /\ ~match(info.make, make.s) THEN FALSE
        ELSE IF Truthy(model) /\ ~match(info.model, model.s) THEN FALSE
        ELSE IF Truthy(status) /\ ~match(info.status, status.s) THEN FALSE
        ELSE IF Truthy(destination) /\ ~match(info.destination, destination.s) THEN FALSE
        ELSE TRUE

\* GET /vehicles/search
search_vehicles_store(st, params) ==
    LET ids == SelectSeq(StoreIds(st), LAMBDA vid : search_keeps(st[vid], params))
    IN  [status |-> 200, body |-> [i \in 1..Len(ids) |-> WithId(ids[i], st[ids[i]])]]

\* GET /vehicles/{vehicle_id}
get_vehicle(st, vehicle_id) ==
    IF vehicle_id \notin DOMAIN st
    THEN [status |-> 404, body |-> [detail |-> "Vehicle not found"]]
    ELSE [status |-> 200, body |-> st[vehicle_id]]

\* the record is replaced by one holding only the new status and the old make and model
SetStatus_LosesDestination(st, vehicle_id, status) ==
    [st EXCEPT ![vehicle_id] = [@ EXCEPT !.status = status, !.destination = <<>>]]

\* the status given is added to what the record holds instead of replacing it
SetStatus_Appends(st, vehicle_id, status) ==
    [st EXCEPT ![vehicle_id] = [@ EXCEPT !.status = @ \o status]]

\* the assignment VEHICLES[vehicle_id]["status"] = status
SetStatus(st, vehicle_id, status) ==
    [st EXCEPT ![vehicle_id] = [@ EXCEPT !.status = status]]

\* an update of an id the store does not hold creates a record for it
update_vehicle_status_store_Upsert(st, vehicle_id, status) ==
    IF vehicle_id \notin DOMAIN st
    THEN (vehicle_id :> [make |-> <<>>, model |-> <<>>, status |-> status,
                         destination |-> <<>>]) @@ st
    ELSE SetStatus(st, vehicle_id, status)

\* an update of a record that was updated before is ignored: the first writer wins
update_vehicle_status_store_KeepsFirst(st, vehicle_id, status) ==
    IF vehicle_id \notin DOMAIN st THEN st
    ELSE IF st[vehicle_id].status # VEHICLES[vehicle_id].status THEN st
    ELSE SetStatus(st, vehicle_id, status)

\* PATCH /vehicles/{vehicle_id}: the store after the handler ran
update_vehicle_status_store(st, vehicle_id, status) ==
    IF vehicle_id \notin DOMAIN st THEN st ELSE SetStatus(st, vehicle_id, status)

\* PATCH /vehicles/{vehicle_id}: the handler's response
update_vehicle_status(st, vehicle_id, status) ==
    IF vehicle_id \notin DOMAIN st
    THEN [status |-> 404, body |-> [detail |-> "Vehicle not found"]]
    ELSE [status |-> 200,
          body |-> WithId(vehicle_id, update_vehicle_status_store(st, vehicle_id, status)[vehicle_id])]

-----------------------------------------------------------------------------
(* The HTTP exchange between the Tool Adapter and the store *)

\* what can happen to one request of httpx.AsyncClient(timeout=5.0):
\*   ok            the store's handler answers
\*   http_500      the store answers with a status that is neither 200 nor 404
\*   bad_body      the store answers 200 with a body that lacks the expected fields
\*   timeout       httpx.TimeoutException before the store handled the request
\*   timeout_late  httpx.TimeoutException after the store handled the request
\*   connect_error any other transport failure
NetOutcomes == {"ok", "http_500", "bad_body", "timeout", "timeout_late", "connect_error"}

\* a GET changes nothing in the store, so for it timeout_late is timeout
GetOutcomes == NetOutcomes \ {"timeout_late"}

Raise(exc) == [kind |-> "raise", exc |-> exc]
Return(text) == [kind |-> "return", text |-> text]
Value(v) == [kind |-> "value", value |-> v]

NoParams == [p \in {} |-> <<>>]

Request(method, path, params) == [method |-> method, path |-> path, params |-> params]

\* FastAPI's routing: the routes in the order data_source.py declares them
Handle(st, req) ==
    IF req.method = "GET" /\ req.path = <<"vehicles">>
        THEN list_vehicles_store(st)
    ELSE IF req.method = "GET" /\ req.path = <<"vehicles", "search">>
        THEN search_vehicles_store(st, req.params)
    ELSE IF req.method = "GET"
        THEN get_vehicle(st, req.path[2])
    ELSE update_vehicle_status(st, req.path[2], req.params["status"])

\* the store after the request (only the PATCH handler writes)
StoreAfter(st, req, o) ==
    IF req.method = "PATCH" /\ o \in {"ok", "bad_body", "timeout_late"}
    THEN update_vehicle_status_store(st, req.path[2], req.params["status"])
    ELSE st

BadBody(req) ==
    IF req.method = "GET" /\ (Len(req.path) = 1 \/ req.path = <<"vehicles", "search">>)
    THEN << [junk |-> TRUE] >>
    ELSE [junk |-> TRUE]

\* `await client.get(...)` / `await client.patch(...)`: a response or an exception
Exchange(st, req, o) ==
    CASE o = "ok" -> [kind |-> "response"] @@ Handle(st, req)
      [] o = "http_500" -> [kind |-> "response", status |-> 500, body |-> [detail |-> "error"]]
      [] o = "bad_body" -> [kind |-> "response", status |-> 200, body |-> BadBody(req)]
      [] o \in {"timeout", "timeout_late"} -> Raise("TimeoutException")
      [] OTHER -> Raise("ConnectError")

\* what the adapter observed of a request: the request, its outcome, the status received
Sent(st, req, o) ==
    LET r == Exchange(st, req, o)
    IN  [req |-> req, outcome |-> o, status |-> IF r.kind = "response" THEN r.status ELSE 0]

HasKeys(d, keys) == keys \subseteq DOMAIN d

Min(a, b) == IF a <= b THEN a ELSE b

\* vehicles[:3]
FirstThree(s) == SubSeq(s, 1, Min(3, Len(s)))

-----------------------------------------------------------------------------
(* mcp_server.py: the Tool Adapter *)

\* the text of an `except Exception as e` clause: the clause's text with e formatted in
WithException(text, exc) == [text EXCEPT !.e = exc]

\* try: body / except httpx.TimeoutException: onTimeout / except Exception as e: onOther
TryExcept(r, onTimeout, onOther) ==
    IF r.kind # "raise" THEN r
    ELSE IF r.exc = "TimeoutException" THEN Return(onTimeout)
    ELSE Return(WithException(onOther, r.exc))

\* the handler lets the KeyError of a missing field through
TryExceptAll_NotKeyError(r, onOther) ==
    IF r.kind # "raise" \/ r.exc = "KeyError" THEN r ELSE Return(WithException(onOther, r.exc))

\* try: body / except Exception as e: onOther
TryExceptAll(r, onOther) ==
    IF r.kind # "raise" THEN r ELSE Return(WithException(onOther, r.exc))

\* list_vehicles_internal: a list, or the exception of the request
list_vehicles_internal(st, o) ==
    LET response_ == Exchange(st, Request("GET", <<"vehicles">>, NoParams), o)
    IN  IF response_.kind = "raise" THEN response_
        ELSE IF response_.status = 200 THEN Value(response_.body)
        ELSE Value(<<>>)

\* ", ".join(v['id'] for v in vehicles[:3]): the ids joined, or the KeyError of v['id']
JoinIds(vehicles) ==
    LET firsts == FirstThree(vehicles)
    IN  IF \A i \in 1..Len(firsts) : HasKeys(firsts[i], {"id"})
        THEN Value([i \in 1..Len(firsts) |-> firsts[i].id])
        ELSE Raise("KeyError")

VehicleKeys == {"make", "model", "status", "destination"}

\* the body of get_vehicle_details's try block
get_vehicle_details_try(st, vehicle_id, o1, o2) ==
    LET response_ == Exchange(st, Request("GET", <<"vehicles", vehicle_id>>, NoParams), o1)
    IN  IF response_.kind = "raise" THEN response_
        ELSE IF response_.status = 200 THEN
            LET data == response_.body
            IN  IF HasKeys(data, VehicleKeys)
                THEN Return([kind |-> "details", vehicle_id |-> vehicle_id,
                             make |-> data.make, model |-> data.model,
                             status |-> data.status, destination |-> data.destination])
                ELSE Raise("KeyError")
        ELSE IF response_.status = 404 THEN
            LET vehicles == list_vehicles_internal(st, o2)
            IN  IF vehicles.kind = "raise" THEN vehicles
                ELSE LET close == JoinIds(vehicles.value)
                     IN  IF close.kind = "raise" THEN close
                         ELSE Return([kind |-> "not_found", vehicle_id |-> vehicle_id,
                                      ids |-> close.value])
        ELSE Return([kind |-> "could_not_find", vehicle_id |-> vehicle_id])

get_vehicle_details(st, vehicle_id, o1, o2) ==
    TryExcept(get_vehicle_details_try(st, vehicle_id, o1, o2),
              [kind |-> "timed_out", vehicle_id |-> vehicle_id],
              [kind |-> "could_not_fetch", vehicle_id |-> vehicle_id, e |-> "e"])

\* one line of a listing
VehicleLine(v) ==
    [id |-> v.id, make |-> v.make, model |-> v.model,
     status |-> v.status, destination |-> v.destination]

\* "\n".join([f"Vehicle {v['id']}: ..." for v in vehicles]): the lines, or a KeyError
JoinLines(vehicles) ==
    IF \A i \in 1..Len(vehicles) : HasKeys(vehicles[i], VehicleKeys \cup {"id"})
    THEN Value([i \in 1..Len(vehicles) |-> VehicleLine(vehicles[i])])
    ELSE Raise("KeyError")

\* the body of list_vehicles's try block
list_vehicles_try(st, o) ==
    LET vehicles == list_vehicles_internal(st, o)
    IN  IF vehicles.kind = "raise" THEN vehicles
        ELSE IF vehicles.value # <<>>
            THEN LET lines == JoinLines(vehicles.value)
                 IN  IF lines.kind = "raise" THEN lines
                     ELSE Return([kind |-> "vehicle_lines", lines |-> lines.value])
        ELSE Return([kind |-> "could_not_retrieve_list"])

list_vehicles(st, o) ==
    TryExcept(list_vehicles_try(st, o),
              [kind |-> "list_timed_out"],
              [kind |-> "could_not_fetch_list", e |-> "e"])

\* params = {}; if make: params['make'] = make; ... (only the truthy filters are forwarded)
search_params(args) ==
    [n \in {m \in FilterNames : Truthy(args[m])} |-> args[n].s]

\* the body of search_vehicles's try block
search_vehicles_try(st, args, o) ==
    LET response_ == Exchange(st, Request("GET", <<"vehicles", "search">>, search_params(args)), o)
    IN  IF response_.kind = "raise" THEN response_
        ELSE IF response_.status = 200 THEN
            LET hits == response_.body
            IN  IF hits = <<>> THEN Return([kind |-> "no_match"])
                ELSE LET lines == JoinLines(hits)
                     IN  IF lines.kind = "raise" THEN lines
                         ELSE Return([kind |-> "search_lines", lines |-> lines.value])
        ELSE Return([kind |-> "search_unexpected_status"])

search_vehicles(st, args, o) ==
    TryExcept(search_vehicles_try(st, args, o),
              [kind |-> "search_timeout"],
              [kind |-> "search_error", e |-> "e"])

\* counts[key] = 1: the earlier count of the key is forgotten
Bump_Overwrites(counts, key) ==
    IF \E i \in 1..Len(counts) : counts[i].k = key
    THEN [i \in 1..Len(counts) |->
            IF counts[i].k = key THEN [k |-> key, c |-> 1] ELSE counts[i]]
    ELSE Append(counts, [k |-> key, c |-> 1])

\* counts[key] = counts.get(key, 0) + 1 on a dict kept in insertion order
Bump(counts, key) ==
    IF \E i \in 1..Len(counts) : counts[i].k = key
    THEN [i \in 1..Len(counts) |->
            IF counts[i].k = key THEN [k |-> key, c |-> counts[i].c + 1] ELSE counts[i]]
    ELSE Append(counts, [k |-> key, c |-> 1])

\* the for loop of inventory_summary for one of its two dicts
RECURSIVE Tally(_, _)
Tally(vehicles, field) ==
    IF vehicles = <<>> THEN <<>>
    ELSE Bump(Tally(SubSeq(vehicles, 1, Len(vehicles) - 1), field),
              vehicles[Len(vehicles)][field])

\* the body of inventory_summary's try block
inventory_summary_try(st, o) ==
    LET vehicles == list_vehicles_internal(st, o)
    IN  IF vehicles.kind = "raise" THEN vehicles
        ELSE IF vehicles.value = <<>> THEN Return([kind |-> "inventory_empty"])
        ELSE IF \A i \in 1..Len(vehicles.value) :
                    HasKeys(vehicles.value[i], {"status", "destination"})
            THEN Return([kind |-> "summary",
                         status_counts |-> Tally(vehicles.value, "status"),
                         destination_counts |-> Tally(vehicles.value, "destination")])
        ELSE Raise("KeyError")

inventory_summary(st, o) ==
    TryExceptAll(inventory_summary_try(st, o), [kind |-> "summary_error", e |-> "e"])

PatchRequest(vehicle_id, new_status) ==
    Request("PATCH", <<"vehicles", vehicle_id>>, [p \in {"status"} |-> new_status])

\* the body of change_status's try block; the list request follows the PATCH
change_status_try(st, vehicle_id, new_status, o1, o2) ==
    LET req == PatchRequest(vehicle_id, new_status)
        response_ == Exchange(st, req, o1)
    IN  IF response_.kind = "raise" THEN response_
        ELSE IF response_.status = 200 THEN
            LET data == response_.body
            IN  IF HasKeys(data, {"status"})
                THEN Return([kind |-> "updated", vehicle_id |-> vehicle_id,
                             status |-> data.status])
                ELSE Raise("KeyError")
        ELSE IF response_.status = 404 THEN
            LET vehicles == list_vehicles_internal(StoreAfter(st, req, o1), o2)
            IN  IF vehicles.kind = "raise" THEN vehicles
                ELSE LET suggestions == JoinIds(vehicles.value)
                     IN  IF suggestions.kind = "raise" THEN suggestions
                         ELSE Return([kind |-> "change_not_found", vehicle_id |-> vehicle_id,
                                      ids |-> suggestions.value])
        ELSE Return([kind |-> "change_failed", status_code |-> response_.status])

change_status(st, vehicle_id, new_status, o1, o2) ==
    TryExcept(change_status_try(st, vehicle_id, new_status, o1, o2),
              [kind |-> "change_timeout"],
              [kind |-> "change_error", e |-> "e"])

-----------------------------------------------------------------------------
(* One tool invocation: what it returns, what it sent, what it did to the store *)

NoArgs == [unused |-> TRUE]

Call(name, args) == [name |-> name, args |-> args]

ListRequest == Request("GET", <<"vehicles">>, NoParams)

\* a first request, and the list request that follows it when the store answered 404
WithFollowUp(st, req, o1, o2) ==
    LET first == Sent(st, req, o1)
    IN  IF first.status = 404
        THEN <<first, Sent(StoreAfter(st, req, o1), ListRequest, o2)>>
        ELSE <<first>>

GetVehicleDetails(vehicle_id, o1, o2) ==
    /\ lastCall' = Call("get_vehicle_details", [vehicle_id |-> vehicle_id])
    /\ lastRequests' = WithFollowUp(store, Request("GET", <<"vehicles", vehicle_id>>, NoParams), o1, o2)
    /\ lastResult' = get_vehicle_details(store, vehicle_id, o1, o2)
    /\ store' = store

ListVehicles(o) ==
    /\ lastCall' = Call("list_vehicles", NoArgs)
    /\ lastRequests' = <<Sent(store, ListRequest, o)>>
    /\ lastResult' = list_vehicles(store, o)
    /\ store' = store

SearchVehicles(args, o) ==
    /\ lastCall' = Call("search_vehicles", args)
    /\ lastRequests' = <<Sent(store, Request("GET", <<"vehicles", "search">>, search_params(args)), o)>>
    /\ lastResult' = search_vehicles(store, args, o)
    /\ store' = store

InventorySummary(o) ==
    /\ lastCall' = Call("inventory_summary", NoArgs)
    /\ lastRequests' = <<Sent(store, ListRequest, o)>>
    /\ lastResult' = inventory_summary(store, o)
    /\ store' = store

ChangeStatus(vehicle_id, new_status, o1, o2) ==
    /\ lastCall' = Call("change_status", [vehicle_id |-> vehicle_id, new_status |-> new_status])
    /\ lastRequests' = WithFollowUp(store, PatchRequest(vehicle_id, new_status), o1, o2)
    /\ lastResult' = change_status(store, vehicle_id, new_status, o1, o2)
    /\ store' = StoreAfter(store, PatchRequest(vehicle_id, new_status), o1)

-----------------------------------------------------------------------------
(* mcp_client.py: the Conversation Driver *)

\* Texts of the driver are sequences of pieces, so that "" is <<>> and + is \o.
Unbound == [tag |-> "unbound"]

\* the parts of a model response
FunctionCallPart(fc) == [kind |-> "function_call", function_call |-> fc]
TextPart(text) == [kind |-> "text", text |-> text]
OtherPart == [kind |-> "other"]

Content(role, parts) == [role |-> role, parts |-> parts]

\* types.Content(role="user", parts=[types.Part.from_text(text=user_query)]); the SDK
\* turns the bare string given as `contents` on the first request into the same turn
UserTurn(query) == Content("user", <<TextPart(query)>>)

\* types.Content(role="tool", parts=[types.Part.from_function_response(...)])
ToolTurn(name, tool_text) ==
    Content("tool", <<[kind |-> "function_response", name |-> name,
                       response |-> [result |-> tool_text]]>>)

\* a response: `candidates` is empty, or one candidate holding a model turn
ModelResponse(parts) == [candidates |-> <<[content |-> Content("model", parts)]>>]
NoCandidates == [candidates |-> <<>>]
NoResponse == [candidates |-> <<>>, none |-> TRUE]

\* part.function_call is set
IsFunctionCall(part) == part.kind = "function_call"

\* getattr(part, 'text', str(part)): a Part has the attribute, None unless it is a text part
part_text(part) == IF part.kind = "text" THEN PyStr(part.text) ELSE PyNone

RECURSIVE JoinText(_)
JoinText(parts) ==
    IF parts = <<>> THEN <<>>
    ELSE (IF parts[1].kind = "text" THEN parts[1].text ELSE <<>>) \o JoinText(Tail(parts))

\* response.text: the texts of the text parts joined, None when there is no text part
response_text(r) ==
    IF r.candidates = <<>> THEN PyNone
    ELSE LET parts == r.candidates[1].content.parts
         IN  IF \E i \in 1..Len(parts) : parts[i].kind = "text"
             THEN PyStr(JoinText(parts))
             ELSE PyNone

Placeholder == PyStr(<<"(no answer received)">>)
Diagnostic(e) == PyStr(<<"(failed due to API error: ", e, ")">>)

\* lines 107-113: the final answer of a response whose first part is no function call
plain_answer(r) ==
    IF Truthy(response_text(r)) THEN response_text(r)
    ELSE IF r.candidates # <<>> /\ r.candidates[1].content.parts # <<>>
        THEN part_text(r.candidates[1].content.parts[1])
    ELSE Placeholder

\* line 80: parts and parts[0].function_call
RequestsTool(r) ==
    LET parts == r.candidates[1].content.parts
    IN  parts # <<>> /\ IsFunctionCall(parts[1])

Terminal == {"DONE", "FAILED", "CRASHED"}

-----------------------------------------------------------------------------
(* The inputs: what the language model and the callers of the tools may ask for *)

\* the most tool calls the language model requests in one run
MaxTools == 2

Sold == <<"S","o","l","d">>

IdArgs == {"101", "102", "999"}
NewStatuses == {Shipped, Sold}

MakeTerms == {PyNone, PyStr(<<>>), PyStr(<<"T","O">>)}
ModelTerms == {PyNone, PyStr(<<"f","i","t">>)}
StatusTerms == {PyNone, PyStr(<<"S","H","I","P">>), PyStr(<<"i","n">>)}
DestinationTerms == {PyNone, PyStr(<<"a">>)}

SearchArgs ==
    [make : MakeTerms, model : ModelTerms, status : StatusTerms, destination : DestinationTerms]

UserQueries == {<<"What is the status of vehicle 102?">>}

\* the function calls the language model emits
ModelCalls ==
    { Call("get_vehicle_details", [vehicle_id |-> "102"]),
      Call("get_vehicle_details", [vehicle_id |-> "999"]),
      Call("list_vehicles", NoArgs),
      Call("search_vehicles", [make |-> PyNone, model |-> PyNone,
                               status |-> PyStr(<<"s","h","i","p">>), destination |-> PyNone]),
      Call("inventory_summary", NoArgs),
      Call("change_status", [vehicle_id |-> "102", new_status |-> Sold]) }

\* the outcomes of the store requests explored under the driver
DriverOutcomes == {"ok", "http_500", "timeout"}

Answer == <<"Vehicle 102 is Shipped.">>

\* the parts of the responses that request no tool (the first part is no function call)
PlainParts ==
    { <<>>,
      <<TextPart(Answer)>>,
      <<TextPart(<<>>)>>,
      <<OtherPart>>,
      <<OtherPart, TextPart(Answer)>>,
      <<TextPart(Answer), FunctionCallPart(Call("list_vehicles", NoArgs))>> }

\* the parts of the responses that request a tool (the first part is a function call)
CallParts ==
    { <<FunctionCallPart(c)>> : c \in ModelCalls } \cup
    { <<FunctionCallPart(Call("inventory_summary", NoArgs)),
        FunctionCallPart(Call("list_vehicles", NoArgs))>>,
      <<FunctionCallPart(Call("list_vehicles", NoArgs)), TextPart(Answer)>> }

\* what the model may answer once n tools were executed
Responses(n) ==
    {NoCandidates} \cup { ModelResponse(p) : p \in PlainParts } \cup
    (IF n < MaxTools THEN { ModelResponse(p) : p \in CallParts } ELSE {})

ApiErrors == {"503 UNAVAILABLE"}

-----------------------------------------------------------------------------
(* mcp_client.py, clean_schema: a JSON schema is a tree of objects, lists and scalars *)

Dict(items) == [t |-> "dict", items |-> items]
List(elems) == [t |-> "list", elems |-> elems]
Atom(a) == [t |-> "atom", a |-> a]

\* lines 12-22: the key is dropped from an object, an object value is cleaned in turn,
\* of a list value only the items that are objects are cleaned; anything that is not
\* an object is returned as it is
RECURSIVE clean_schema(_)
clean_schema(s) ==
    IF s.t = "dict"
    THEN LET kept == DOMAIN s.items \ {"additionalProperties"}
         IN  Dict([key \in kept |->
                LET value == s.items[key]
                IN  IF value.t = "dict" THEN clean_schema(value)
                    ELSE IF value.t = "list"
                    THEN List([i \in DOMAIN value.elems |->
                                IF value.elems[i].t = "dict" THEN clean_schema(value.elems[i])
                                ELSE value.elems[i]])
                    ELSE value])
    ELSE s

\* the schemas handed to clean_schema: objects nested up to MaxDepth levels above a leaf
MaxDepth == 3
SchemaKeys == {"additionalProperties", "items"}
Closed == "additionalProperties" :> Atom("false")
Leaves == {Atom("string"), Dict(Closed), Dict(Closed @@ ("type" :> Atom("object")))}

RECURSIVE Nodes(_)
Nodes(d) ==
    IF d = 0 THEN Leaves
    ELSE LET sub == Nodes(d - 1)
         IN  sub \cup {List(<<>>)} \cup { List(<<n>>) : n \in sub }
                 \cup { Dict(k :> n) : k \in SchemaKeys, n \in sub }

Schemas == { n \in Nodes(MaxDepth) : n.t = "dict" }

-----------------------------------------------------------------------------
(* concurrent sessions: each one invokes change_status on the same record *)

MaxSessions == 3
Sessions == 1 .. MaxSessions
SharedId == "102"
Idle == [phase |-> "idle"]

-----------------------------------------------------------------------------
(* main(): one action per step of the driver *)

InitProgram ==
    /\ store = VEHICLES
    /\ lastCall = Call("none", NoArgs)
    /\ lastRequests = <<>>
    /\ lastResult = Return([kind |-> "none"])
    /\ pc = "start"
    /\ response = NoResponse
    /\ conversation = <<>>
    /\ final_answer = Unbound
    /\ sent = <<>>
    /\ apiError = FALSE
    /\ user_query \in UserQueries
    /\ log = <<UserTurn(user_query)>>
    /\ nQueries = 0
    /\ nTools = 0
    /\ sessions = [s \in Sessions |-> Idle]
    /\ applied = <<>>
    /\ cleaned = Unbound

Init ==
    /\ InitProgram
    /\ schema = Unbound

\* lines 61-66: the first request carries the bare query
FirstRequest ==
    /\ pc = "start"
    /\ sent' = <<UserTurn(user_query)>>
    /\ nQueries' = nQueries + 1
    /\ pc' = "awaiting_first"
    /\ UNCHANGED <<toolVars, otherVars, response, conversation, final_answer, apiError, log, user_query, nTools>>

\* lines 67-69: the first request raised; main returns
FirstRequestFails ==
    /\ pc = "awaiting_first"
    /\ \E e \in ApiErrors : apiError' = TRUE
    /\ pc' = "FAILED"
    /\ UNCHANGED <<toolVars, otherVars, response, conversation, final_answer, sent, log, user_query,
                   nQueries, nTools>>

\* lines 74-77 after the first request returned
SeedConversation(r) ==
    IF r.candidates = <<>>
    THEN /\ conversation' = <<UserTurn(user_query)>>
         /\ final_answer' = final_answer
         /\ log' = log
         /\ pc' = "CRASHED"
    ELSE /\ conversation' = <<UserTurn(user_query), r.candidates[1].content>>
         /\ final_answer' = PyNone
         /\ log' = Append(log, r.candidates[1].content)
         /\ pc' = "loop"

FirstResponse ==
    /\ pc = "awaiting_first"
    /\ \E r \in Responses(nTools) :
        /\ response' = r
        /\ SeedConversation(r)
    /\ UNCHANGED <<toolVars, otherVars, sent, apiError, user_query, nQueries, nTools>>

\* the loop gives up once a tool was executed: a further request for a tool ends the run
RequestTool_Capped ==
    /\ pc = "loop"
    /\ RequestsTool(response)
    /\ pc' = IF nTools < 1 THEN "executing_tool" ELSE "DONE"
    /\ UNCHANGED <<toolVars, otherVars, response, conversation, final_answer, sent, apiError, log,
                   user_query, nQueries, nTools>>

\* lines 79-83: the first part is a function call; session.call_tool is awaited
RequestTool ==
    /\ pc = "loop"
    /\ RequestsTool(response)
    /\ pc' = "executing_tool"
    /\ UNCHANGED <<toolVars, otherVars, response, conversation, final_answer, sent, apiError, log,
                   user_query, nQueries, nTools>>

\* result.content[0].text: the tool's text; FastMCP reports a tool that raised as a text
tool_text(result) ==
    IF result.kind = "return" THEN result.text ELSE [kind |-> "tool_raised", e |-> result.exc]

\* the tool result is passed on without being recorded in the conversation
AppendToolResult_Dropped(fc, result) ==
    /\ conversation' = conversation
    /\ log' = Append(log, ToolTurn(fc.name, tool_text(result)))

\* lines 89-91
AppendToolResult(fc, result) ==
    /\ conversation' = Append(conversation, ToolTurn(fc.name, tool_text(result)))
    /\ log' = Append(log, ToolTurn(fc.name, tool_text(result)))

\* the function call executed is the last one of the response's parts, not the first
ExecuteTool_LastCall ==
    /\ pc = "executing_tool"
    /\ LET parts == response.candidates[1].content.parts
           last == CHOOSE i \in DOMAIN parts :
                        /\ IsFunctionCall(parts[i])
                        /\ \A j \in DOMAIN parts : j > i => ~IsFunctionCall(parts[j])
           fc == parts[last].function_call
       IN  /\ \E o1, o2 \in DriverOutcomes :
                \/ fc.name = "get_vehicle_details"
                    /\ GetVehicleDetails(fc.args.vehicle_id, o1, o2)
                \/ fc.name = "list_vehicles" /\ ListVehicles(o1)
                \/ fc.name = "search_vehicles" /\ SearchVehicles(fc.args, o1)
                \/ fc.name = "inventory_summary" /\ InventorySummary(o1)
                \/ fc.name = "change_status"
                    /\ ChangeStatus(fc.args.vehicle_id, fc.args.new_status, o1, o2)
           /\ AppendToolResult(fc, lastResult')
    /\ nTools' = nTools + 1
    /\ pc' = "requery"
    /\ UNCHANGED <<otherVars, response, final_answer, sent, apiError, user_query, nQueries>>

\* lines 83-91: the MCP server runs the tool named by the call, the result is appended
ExecuteTool ==
    /\ pc = "executing_tool"
    /\ LET fc == response.candidates[1].content.parts[1].function_call
       IN  /\ \E o1, o2 \in DriverOutcomes :
                \/ fc.name = "get_vehicle_details"
                    /\ GetVehicleDetails(fc.args.vehicle_id, o1, o2)
                \/ fc.name = "list_vehicles" /\ ListVehicles(o1)
                \/ fc.name = "search_vehicles" /\ SearchVehicles(fc.args, o1)
                \/ fc.name = "inventory_summary" /\ InventorySummary(o1)
                \/ fc.name = "change_status"
                    /\ ChangeStatus(fc.args.vehicle_id, fc.args.new_status, o1, o2)
           /\ AppendToolResult(fc, lastResult')
    /\ nTools' = nTools + 1
    /\ pc' = "requery"
    /\ UNCHANGED <<otherVars, response, final_answer, sent, apiError, user_query, nQueries>>

\* lines 93-98: the model is asked again with the whole conversation
Requery ==
    /\ pc = "requery"
    /\ sent' = conversation
    /\ nQueries' = nQueries + 1
    /\ pc' = "awaiting_model"
    /\ UNCHANGED <<toolVars, otherVars, response, conversation, final_answer, apiError, log, user_query, nTools>>

\* a request that raised inside the loop is issued once more before the run gives up
RequeryFails_Retries ==
    /\ pc = "awaiting_model"
    /\ \E e \in ApiErrors :
        /\ final_answer' = Diagnostic(e)
        /\ apiError' = TRUE
    /\ nQueries' = nQueries + 1
    /\ pc' = "FAILED"
    /\ UNCHANGED <<toolVars, otherVars, response, conversation, sent, log, user_query, nTools>>

\* lines 99-102: the request raised inside the loop
RequeryFails ==
    /\ pc = "awaiting_model"
    /\ \E e \in ApiErrors :
        /\ final_answer' = Diagnostic(e)
        /\ apiError' = TRUE
    /\ pc' = "FAILED"
    /\ UNCHANGED <<toolVars, otherVars, response, conversation, sent, log, user_query, nQueries, nTools>>

\* the model turn of a later response is not recorded in the conversation
AppendResponse_Dropped(r) ==
    IF r.candidates = <<>>
    THEN /\ conversation' = conversation
         /\ log' = log
         /\ pc' = "CRASHED"
    ELSE /\ conversation' = conversation
         /\ log' = Append(log, r.candidates[1].content)
         /\ pc' = "loop"

\* line 103 after the request returned
AppendResponse(r) ==
    IF r.candidates = <<>>
    THEN /\ conversation' = conversation
         /\ log' = log
         /\ pc' = "CRASHED"
    ELSE /\ conversation' = Append(conversation, r.candidates[1].content)
         /\ log' = Append(log, r.candidates[1].content)
         /\ pc' = "loop"

RequeryResponse ==
    /\ pc = "awaiting_model"
    /\ \E r \in Responses(nTools) :
        /\ response' = r
        /\ AppendResponse(r)
    /\ UNCHANGED <<toolVars, otherVars, final_answer, sent, apiError, user_query, nQueries, nTools>>

\* a plain answer is not accepted: the model is asked once more
Finish_Retry ==
    /\ pc = "loop"
    /\ ~RequestsTool(response)
    /\ final_answer' = plain_answer(response)
    /\ pc' = IF nQueries < MaxTools + 1 THEN "requery" ELSE "DONE"
    /\ UNCHANGED <<toolVars, otherVars, response, conversation, sent, apiError, log, user_query,
                   nQueries, nTools>>

\* lines 105-114: no function call, the answer is taken from the response
Finish ==
    /\ pc = "loop"
    /\ ~RequestsTool(response)
    /\ final_answer' = plain_answer(response)
    /\ pc' = "DONE"
    /\ UNCHANGED <<toolVars, otherVars, response, conversation, sent, apiError, log, user_query,
                   nQueries, nTools>>

Next ==
    \/ FirstRequest
    \/ FirstRequestFails
    \/ FirstResponse
    \/ RequestTool
    \/ ExecuteTool
    \/ Requery
    \/ RequeryFails
    \/ RequeryResponse
    \/ Finish

Spec == Init /\ [][Next]_vars

-----------------------------------------------------------------------------
(* The tools called directly by an MCP client, with every outcome of the store *)

\* the second outcome is drawn only when a second request is sent
FollowUpSent(req, o1) == Sent(store, req, o1).status = 404

CallGetVehicleDetails ==
    /\ \E vehicle_id \in IdArgs, o1, o2 \in GetOutcomes :
            /\ FollowUpSent(Request("GET", <<"vehicles", vehicle_id>>, NoParams), o1) \/ o2 = "ok"
            /\ GetVehicleDetails(vehicle_id, o1, o2)
    /\ UNCHANGED <<driverVars, otherVars>>

CallListVehicles ==
    /\ \E o \in GetOutcomes : ListVehicles(o)
    /\ UNCHANGED <<driverVars, otherVars>>

CallSearchVehicles ==
    /\ \E args \in SearchArgs, o \in GetOutcomes : SearchVehicles(args, o)
    /\ UNCHANGED <<driverVars, otherVars>>

CallInventorySummary ==
    /\ \E o \in GetOutcomes : InventorySummary(o)
    /\ UNCHANGED <<driverVars, otherVars>>

CallChangeStatus ==
    /\ \E vehicle_id \in IdArgs, new_status \in NewStatuses, o1 \in NetOutcomes, o2 \in GetOutcomes :
            /\ FollowUpSent(PatchRequest(vehicle_id, new_status), o1) \/ o2 = "ok"
            /\ ChangeStatus(vehicle_id, new_status, o1, o2)
    /\ UNCHANGED <<driverVars, otherVars>>

ToolNext ==
    \/ CallGetVehicleDetails
    \/ CallListVehicles
    \/ CallSearchVehicles
    \/ CallInventorySummary
    \/ CallChangeStatus

ToolSpec == Init /\ [][ToolNext]_vars

-----------------------------------------------------------------------------
(* clean_schema applied to each schema of Schemas *)

SchemaInit ==
    /\ InitProgram
    /\ schema \in Schemas

\* mcp_client.py line 39: parameters=clean_schema(tool.inputSchema)
CleanSchema ==
    /\ cleaned = Unbound
    /\ cleaned' = clean_schema(schema)
    /\ UNCHANGED <<toolVars, driverVars, sessions, applied, schema>>

SchemaNext == CleanSchema

SchemaSpec == SchemaInit /\ [][SchemaNext]_vars

-----------------------------------------------------------------------------
(* Several sessions of the tool server invoke change_status on the record SharedId of
   the one store. A session's PATCH is sent, handled by the store, and answered; the
   steps of different sessions interleave freely. *)

\* mcp_server.py lines 142-146: the adapter issues the PATCH and awaits the response
SessionSends ==
    \E s \in Sessions, new_status \in NewStatuses :
        /\ sessions[s].phase = "idle"
        /\ sessions' = [sessions EXCEPT ![s] = [phase |-> "sent", new_status |-> new_status]]
        /\ UNCHANGED <<toolVars, driverVars, applied, schema, cleaned>>

\* data_source.py lines 73-79: the handler has no await, the event loop runs it in one piece
StoreHandlesPatch ==
    \E s \in Sessions :
        /\ sessions[s].phase = "sent"
        /\ LET req == PatchRequest(SharedId, sessions[s].new_status)
           IN  /\ store' = StoreAfter(store, req, "ok")
               /\ applied' = Append(applied, [session |-> s, status |-> sessions[s].new_status,
                                              before |-> store, after |-> store'])
        /\ sessions' = [sessions EXCEPT ![s] = [phase |-> "answered",
                                                new_status |-> @.new_status, seen |-> store]]
        /\ UNCHANGED <<lastCall, lastRequests, lastResult, driverVars, schema, cleaned>>

\* mcp_server.py lines 147-149: the adapter turns the response it received into the text
SessionReturns ==
    \E s \in Sessions :
        /\ sessions[s].phase = "answered"
        /\ sessions' = [sessions EXCEPT ![s] =
                [phase |-> "returned", new_status |-> @.new_status,
                 result |-> change_status(@.seen, SharedId, @.new_status, "ok", "ok")]]
        /\ UNCHANGED <<toolVars, driverVars, applied, schema, cleaned>>

SessionsNext ==
    \/ SessionSends
    \/ StoreHandlesPatch
    \/ SessionReturns

SessionsSpec == Init /\ [][SessionsNext]_vars

-----------------------------------------------------------------------------
(* Properties of the Conversation Driver, checked under Spec *)

AwaitingModel == pc \in {"awaiting_first", "awaiting_model"}

RECURSIVE CountRole(_, _)
CountRole(turns, role) ==
    IF turns = <<>> THEN 0
    ELSE (IF turns[1].role = role THEN 1 ELSE 0) + CountRole(Tail(turns), role)

\* the last turn is a tool result answering the function call of the model turn before it
EndsWithAnsweredCall(turns) ==
    LET n == Len(turns)
    IN  /\ n >= 3
        /\ turns[n].role = "tool"
        /\ turns[n - 1].role = "model"
        /\ turns[n - 1].parts # <<>>
        /\ IsFunctionCall(turns[n - 1].parts[1])
        /\ turns[n].parts[1].name = turns[n - 1].parts[1].function_call.name

\* C1: model queries and tool executions strictly alternate. While a query is in
\* progress or its response is being handled, exactly one more query than tool
\* executions has happened; once the tool has run and before the next query is sent
\* the two counts are equal; every query after the first carries exactly one tool
\* result per earlier query, the last of them placed right after the model turn that
\* carried its function call; a tool runs only on a received function-call response.
C1_StrictAlternation ==
    /\ pc = "start" => nQueries = 0 /\ nTools = 0
    /\ pc \in {"awaiting_first", "awaiting_model", "loop", "executing_tool"}
            => nQueries = nTools + 1
    /\ pc = "requery" => nQueries = nTools /\ EndsWithAnsweredCall(conversation)
    /\ pc = "awaiting_first" => sent = <<UserTurn(user_query)>>
    /\ pc = "awaiting_model"
            => /\ EndsWithAnsweredCall(sent)
               /\ CountRole(sent, "tool") = nQueries - 1
               /\ CountRole(sent, "model") = nQueries - 1
    /\ pc = "executing_tool"
            => /\ RequestsTool(response)
               /\ conversation[Len(conversation)] = response.candidates[1].content

C1_Witness == pc = "awaiting_model" /\ nTools = 2 /\ nQueries = 3

IsPrefix(s, t) == Len(s) <= Len(t) /\ SubSeq(t, 1, Len(s)) = s

\* C2: the contents of every model query are the complete history: the one user turn
\* with the raw query, then every model turn and every tool-result turn that occurred,
\* in order of occurrence; and the conversation only ever grows at its end.
C2_CompleteHistory ==
    /\ [](AwaitingModel =>
            /\ sent = log
            /\ sent[1] = UserTurn(user_query)
            /\ CountRole(sent, "user") = 1)
    /\ [][IsPrefix(conversation, conversation')]_vars

C2_Witness == pc = "awaiting_model" /\ Len(sent) = 5 /\ sent = log

\* C3: a response whose first part is no function call, and a failure of the model
\* call, end the run: the next step after such a response leads to DONE, the failure
\* itself leads to FAILED, neither issues a query or runs a tool, and nothing
\* happens after DONE or FAILED.
C3_TerminatesWithoutRetry ==
    /\ []((pc = "loop" /\ ~RequestsTool(response)) => ENABLED Finish)
    /\ [][ /\ (pc = "loop" /\ ~RequestsTool(response))
                => (pc' = "DONE" /\ nQueries' = nQueries /\ nTools' = nTools)
           /\ (~apiError /\ apiError')
                => (pc' = "FAILED" /\ nQueries' = nQueries /\ nTools' = nTools)
           /\ pc \in {"DONE", "FAILED"} => UNCHANGED vars ]_vars

C3_Witness == pc = "DONE" /\ nTools = 1 /\ nQueries = 2

\* C4: after a failure of the model call, first or later, the run has ended with a
\* final answer that is the diagnostic string of the failure.
C4_FailureGivesDiagnostic ==
    apiError => (pc = "FAILED" /\ final_answer \in {Diagnostic(e) : e \in ApiErrors})

\* no part carries a non-empty text
NoRetrievableText(r) ==
    \/ r.candidates = <<>>
    \/ \A i \in 1..Len(r.candidates[1].content.parts) :
            LET part == r.candidates[1].content.parts[i]
            IN  part.kind # "text" \/ part.text = <<>>

\* the model answered, and its answer requests no tool
PlainResponseReceived ==
    /\ pc \in Terminal
    /\ ~apiError
    /\ response.candidates = <<>> \/ ~RequestsTool(response)

\* C5: a run that ended on a response with neither a function call nor a retrievable
\* text (including one with no parts or no candidates) is DONE with the placeholder
\* "(no answer received)" as its final answer.
C5_PlaceholderWhenNoText ==
    (PlainResponseReceived /\ NoRetrievableText(response))
        => (pc = "DONE" /\ final_answer = Placeholder)

-----------------------------------------------------------------------------
(* Properties of the Tool Adapter and the store, checked under ToolSpec *)

ToolNames ==
    {"get_vehicle_details", "list_vehicles", "search_vehicles", "inventory_summary",
     "change_status"}

Called(name) == lastCall.name = name

\* the text the last invocation returned is of the given kind
Returned(kind) == lastResult.kind = "return" /\ lastResult.text.kind = kind

\* C6: every invocation of each of the five tools ends by returning a text, whatever
\* the store did with its requests; none ends by raising.
C6_AlwaysReturnsText ==
    lastCall.name \in ToolNames => lastResult.kind = "return"

C6_Witness ==
    /\ Called("inventory_summary")
    /\ lastRequests[1].outcome = "bad_body"
    /\ Returned("summary_error")

\* the store answered the lookup of the last get_vehicle_details with 404
LookupNotFound ==
    /\ Called("get_vehicle_details")
    /\ lastCall.args.vehicle_id \notin DOMAIN store
    /\ lastRequests[1].status = 404

\* the request for the alternate ids was answered, timed out or failed in transport
FollowUpAsClaimed ==
    /\ Len(lastRequests) = 2
    /\ lastRequests[2].outcome \in {"ok", "http_500", "timeout", "connect_error"}

\* C7: whenever the store answers the lookup of an absent id with not-found,
\* get_vehicle_details returns the not-found text for that id, also when the request
\* that collects the alternate ids times out, fails or yields no records.
C7_NotFoundIsReported ==
    (LookupNotFound /\ FollowUpAsClaimed) =>
        /\ Returned("not_found")
        /\ lastResult.text.vehicle_id = lastCall.args.vehicle_id

\* the record with only its status replaced
WithStatus(record, status) ==
    [make |-> record.make, model |-> record.model, status |-> status,
     destination |-> record.destination]

\* C8: the store changes only by change_status, and then only in the status of the
\* record named, which becomes the status given; an update the store answers changes
\* the record and is echoed; get_vehicle_details reports the status the record holds,
\* which is the one set last.
C8_OnlyStatusChanges ==
    /\ [][ /\ DOMAIN store' = DOMAIN store
           /\ \A vid \in DOMAIN store :
                store'[vid] # store[vid] =>
                    /\ lastCall'.name = "change_status"
                    /\ lastCall'.args.vehicle_id = vid
                    /\ store'[vid] = WithStatus(store[vid], lastCall'.args.new_status)
           /\ (/\ lastCall'.name = "change_status"
               /\ lastCall'.args.vehicle_id \in DOMAIN store
               /\ lastRequests'[1].outcome = "ok")
                => /\ store'[lastCall'.args.vehicle_id]
                        = WithStatus(store[lastCall'.args.vehicle_id], lastCall'.args.new_status)
                   /\ lastResult' = Return([kind |-> "updated",
                                            vehicle_id |-> lastCall'.args.vehicle_id,
                                            status |-> lastCall'.args.new_status]) ]_vars
    /\ []((Called("get_vehicle_details") /\ lastRequests[1].outcome = "ok"
                /\ lastCall.args.vehicle_id \in DOMAIN store)
            => /\ Returned("details")
               /\ lastResult.text.status = store[lastCall.args.vehicle_id].status
               /\ lastResult.text.make = VEHICLES[lastCall.args.vehicle_id].make
               /\ lastResult.text.model = VEHICLES[lastCall.args.vehicle_id].model
               /\ lastResult.text.destination = VEHICLES[lastCall.args.vehicle_id].destination)

C8_Witness ==
    /\ Called("get_vehicle_details")
    /\ lastCall.args.vehicle_id = "102"
    /\ Returned("details")
    /\ lastResult.text.status = Sold
    /\ store["101"] = VEHICLES["101"]

\* the lower-cased term occurs in the lower-cased field
LoweredTermInField(term, value) ==
    \E i \in 1..(Len(value) + 1) :
        /\ i + Len(term) - 1 <= Len(value)
        /\ \A k \in 1..Len(term) : Lower(value)[i + k - 1] = Lower(term)[k]

\* the ids a text of search_vehicles lists
ListedIds(text) ==
    IF text.kind = "search_lines" THEN {text.lines[i].id : i \in 1..Len(text.lines)} ELSE {}

\* the ids the store gives for a search on one filter alone
SingleFilterIds(st, name, term) ==
    LET body == search_vehicles_store(st, [n \in {name} |-> term]).body
    IN  {body[i].id : i \in 1..Len(body)}

ProvidedFilters(args) == {n \in FilterNames : args[n].tag = "str"}

\* C9: a search the store answers lists exactly the records in which, for every
\* filter provided, the lower-cased term occurs in the lower-cased field; that is the
\* intersection of the results of the searches on each filter alone; and the request
\* carries only filters that were provided, with their values.
C9_SearchIsIntersection ==
    (Called("search_vehicles") /\ lastRequests[1].outcome = "ok") =>
        LET args == lastCall.args
            params == lastRequests[1].req.params
        IN  /\ lastResult.kind = "return"
            /\ lastResult.text.kind \in {"search_lines", "no_match"}
            /\ ListedIds(lastResult.text)
                = {vid \in DOMAIN store :
                        \A n \in ProvidedFilters(args) :
                            LoweredTermInField(args[n].s, store[vid][n])}
            /\ \A n1, n2 \in ProvidedFilters(args) :
                    (ProvidedFilters(args) = {n1, n2}) =>
                        ListedIds(lastResult.text)
                            = SingleFilterIds(store, n1, args[n1].s)
                                \cap SingleFilterIds(store, n2, args[n2].s)
            /\ DOMAIN params \subseteq ProvidedFilters(args)
            /\ \A n \in DOMAIN params : params[n] = args[n].s

C9_Witness ==
    /\ Called("search_vehicles")
    /\ lastRequests[1].outcome = "ok"
    /\ lastCall.args.make = PyStr(<<"T","O">>)
    /\ lastCall.args.status = PyStr(<<"i","n">>)
    /\ lastCall.args.model = PyNone
    /\ lastCall.args.destination = PyNone
    /\ ListedIds(lastResult.text) = {"101"}
    /\ SingleFilterIds(store, "status", <<"i","n">>) = {"101", "103", "105"}

RECURSIVE SumCounts(_)
SumCounts(counts) ==
    IF counts = <<>> THEN 0 ELSE counts[1].c + SumCounts(Tail(counts))

\* C10: in every store state reached by status updates, the counts of a summary
\* grouped by status add up to the number of records, and so do the counts grouped
\* by destination.
C10_SummaryCountsAddUp ==
    Returned("summary") =>
        /\ SumCounts(lastResult.text.status_counts) = Cardinality(DOMAIN store)
        /\ SumCounts(lastResult.text.destination_counts) = Cardinality(DOMAIN store)

C10_Witness ==
    /\ Called("inventory_summary")
    /\ Returned("summary")
    /\ store["102"].status = Sold
    /\ store["101"].status = Shipped
    /\ Len(lastResult.text.status_counts) = 3

-----------------------------------------------------------------------------
(* Properties of list_vehicles and inventory_summary when the list is empty or was
   not obtained, checked under ToolSpec *)

\* a store that holds zero records
EmptyStore == [vid \in {} |-> VEHICLES["101"]]

\* the list request timed out, failed in transport, or got a non-success response
ListNotFetched ==
    /\ Len(lastRequests) = 1
    /\ lastRequests[1].req = ListRequest
    /\ lastRequests[1].outcome \in {"timeout", "connect_error", "http_500"}

\* C11: the text list_vehicles returns when the list could not be fetched (timeout,
\* connection error, non-success response) is never the text it returns when the store
\* answers with the list of an inventory that holds zero records.
C11_EmptyInventoryTextIsDistinct ==
    (Called("list_vehicles") /\ ListNotFetched) =>
        lastResult # list_vehicles(EmptyStore, "ok")

-----------------------------------------------------------------------------
(* Properties of the driver's loop, checked under Spec *)

FirstPart(r) == r.candidates[1].content.parts[1]

\* C12: a tool is executed only for a response whose first part is a function call,
\* one tool per step, with the name and the arguments of that first part, and the
\* turn appended for it is a tool turn carrying that name; a response whose first part
\* is not a function call ends the run as DONE without a tool being executed,
\* whatever its other parts hold.
C12_FirstPartDecides ==
    [][ /\ nTools' \in {nTools, nTools + 1}
        /\ nTools' = nTools + 1 =>
            /\ RequestsTool(response)
            /\ response' = response
            /\ lastCall' = FirstPart(response).function_call
            /\ Len(conversation') = Len(conversation) + 1
            /\ conversation'[Len(conversation')].role = "tool"
            /\ conversation'[Len(conversation')].parts[1].name =
                    FirstPart(response).function_call.name
        /\ nTools' = nTools => UNCHANGED toolVars
        /\ (pc = "loop" /\ ~RequestsTool(response)) =>
            /\ pc' = "DONE"
            /\ nTools' = nTools
            /\ conversation' = conversation
      ]_vars

\* the second function call of a response was left alone, and so was the function
\* call that follows a text part
C12_Witness ==
    /\ pc = "DONE"
    /\ nTools = 1
    /\ lastCall.name = "inventory_summary"
    /\ conversation[2].parts =
            <<FunctionCallPart(Call("inventory_summary", NoArgs)),
              FunctionCallPart(Call("list_vehicles", NoArgs))>>
    /\ conversation[4].parts =
            <<TextPart(Answer), FunctionCallPart(Call("list_vehicles", NoArgs))>>

\* C13: the driver has no ceiling on its iterations. Whatever the number of tools
\* executed so far, a response that requests a tool is followed up: the tool is
\* executed (its name being one the server serves, nothing else is asked of it) and
\* the model is asked again. The run ends as DONE only on a response
\* that requests no tool and as FAILED only on a failed model request, so it does not
\* end while the model keeps requesting tools and no request fails.
C13_NoIterationCeiling ==
    /\ (pc = "loop" /\ RequestsTool(response)) => ENABLED RequestTool
    /\ pc = "executing_tool" =>
            /\ RequestsTool(response)
            /\ FirstPart(response).function_call.name \in ToolNames
    /\ pc = "requery" => ENABLED Requery
    /\ pc = "DONE" => ~RequestsTool(response)
    /\ pc = "FAILED" => apiError

\* as many tools were executed as the model asked for, each on a request of its own
C13_Witness ==
    /\ nTools = MaxTools
    /\ nQueries = MaxTools + 1
    /\ pc = "awaiting_model"
    /\ CountRole(conversation, "tool") = MaxTools

-----------------------------------------------------------------------------
(* Properties of concurrent status updates, checked under SessionsSpec *)

\* the sessions whose PATCH was issued
Issued == { s \in Sessions : sessions[s].phase # "idle" }

\* C14: however the change_status invocations of different sessions on one record
\* interleave, the store handles each PATCH in one piece: the record's status is the
\* seeded one or one that a session issued; each handled update starts from the store
\* the previous one left and changes the status of that record alone; the store holds
\* what the update handled last wrote, also once every invocation has returned; every
\* other record and every other field keep their seeded values; and the text a
\* session gets names the status it asked for.
C14_LastWriterWins ==
    /\ store[SharedId].status \in
            {VEHICLES[SharedId].status} \cup { sessions[s].new_status : s \in Issued }
    /\ \A i \in DOMAIN applied :
        /\ applied[i].before = (IF i = 1 THEN VEHICLES ELSE applied[i - 1].after)
        /\ applied[i].after =
                [applied[i].before EXCEPT ![SharedId] = WithStatus(@, applied[i].status)]
    /\ store = (IF applied = <<>> THEN VEHICLES ELSE applied[Len(applied)].after)
    /\ \A vid \in DOMAIN VEHICLES \ {SharedId} : store[vid] = VEHICLES[vid]
    /\ store[SharedId] = WithStatus(VEHICLES[SharedId], store[SharedId].status)
    /\ \A s \in Sessions :
        sessions[s].phase = "returned" =>
            sessions[s].result =
                Return([kind |-> "updated", vehicle_id |-> SharedId,
                        status |-> sessions[s].new_status])

\* every session has returned; the store handled the last session's update first, and
\* the update handled last overwrote a different status
C14_Witness ==
    /\ \A s \in Sessions : sessions[s].phase = "returned"
    /\ Len(applied) = MaxSessions
    /\ applied[1].session = MaxSessions
    /\ applied[Len(applied)].status # applied[Len(applied) - 1].status
    /\ store[SharedId].status = applied[Len(applied)].status

-----------------------------------------------------------------------------
(* Properties of clean_schema, checked under SchemaSpec *)

\* the key occurs in the schema, at whatever depth
RECURSIVE Mentions(_, _)
Mentions(s, key) ==
    IF s.t = "dict"
        THEN key \in DOMAIN s.items \/ \E k \in DOMAIN s.items : Mentions(s.items[k], key)
    ELSE IF s.t = "list"
        THEN \E i \in DOMAIN s.elems : Mentions(s.elems[i], key)
    ELSE FALSE

\* the schema without the key, everything else as it is
RECURSIVE Without(_, _)
Without(s, key) ==
    IF s.t = "dict"
        THEN Dict([k \in DOMAIN s.items \ {key} |-> Without(s.items[k], key)])
    ELSE IF s.t = "list"
        THEN List([i \in DOMAIN s.elems |-> Without(s.elems[i], key)])
    ELSE s

\* C15: what clean_schema returns holds the key "additionalProperties" at no depth,
\* neither in an object nor in a list nor in a list nested directly inside a list, and
\* is otherwise equal to the schema given, which is left as it was.
C15_StripsAtEveryDepth ==
    [][ cleaned' # cleaned =>
            /\ ~Mentions(cleaned', "additionalProperties")
            /\ cleaned' = Without(schema, "additionalProperties")
            /\ schema' = schema ]_vars

-----------------------------------------------------------------------------
(* Further properties of the tools over the store, checked under ToolSpec *)

ReadOnlyTools ==
    {"get_vehicle_details", "list_vehicles", "search_vehicles", "inventory_summary"}

\* C16: the store holds the seeded ids, and each record its seeded make, model and
\* destination, in every state; an invocation of get_vehicle_details, list_vehicles,
\* search_vehicles or inventory_summary leaves the store as it was, and so does
\* change_status for an id the store does not hold: the store changes only by
\* change_status for an id it holds.
C16_StoreFrame ==
    /\ [](/\ DOMAIN store = DOMAIN VEHICLES
          /\ \A vid \in DOMAIN VEHICLES :
                /\ store[vid].make = VEHICLES[vid].make
                /\ store[vid].model = VEHICLES[vid].model
                /\ store[vid].destination = VEHICLES[vid].destination)
    /\ [][ /\ lastCall'.name \in ReadOnlyTools => store' = store
           /\ (/\ lastCall'.name = "change_status"
               /\ lastCall'.args.vehicle_id \notin DOMAIN store) => store' = store
           /\ store' # store =>
                /\ lastCall'.name = "change_status"
                /\ lastCall'.args.vehicle_id \in DOMAIN store
         ]_vars

\* change_status for an absent id was answered not-found and left an earlier update
\* in place
C16_Witness ==
    /\ Called("change_status")
    /\ lastCall.args.vehicle_id = "999"
    /\ Returned("change_not_found")
    /\ store["102"].status = Sold
    /\ store["101"] = VEHICLES["101"]
    /\ DOMAIN store = DOMAIN VEHICLES

-----------------------------------------------------------------------------
(* The driver's accounting, checked under Spec *)

\* C17: when the run has ended, as DONE or as FAILED on the first or on a later model
\* request, the model requests issued are one more than the tools executed, and the
\* conversation holds one tool turn for each tool executed.
C17_QueriesAndToolTurns ==
    pc \in {"DONE", "FAILED"} =>
        /\ nQueries = nTools + 1
        /\ CountRole(conversation, "tool") = nTools

\* the run failed on the request that followed the second tool
C17_Witness ==
    /\ pc = "FAILED"
    /\ nTools = 2
    /\ nQueries = 3
    /\ CountRole(conversation, "tool") = 2

-----------------------------------------------------------------------------
(* Repeated status updates, checked under SessionsSpec *)

\* the i-th update the store handled repeats the one it handled just before
Repeats(i) == i > 1 /\ applied[i].status = applied[i - 1].status

Reported(s) == sessions[s].phase = "returned"

\* C18: when change_status is applied to a record the store holds twice in a row with
\* the same status, the second application leaves the store as the first left it, and
\* returns the text the first returned.
C18_RepeatedUpdateIsIdempotent ==
    \A i \in DOMAIN applied :
        Repeats(i) =>
            /\ applied[i].after = applied[i - 1].after
            /\ (Reported(applied[i].session) /\ Reported(applied[i - 1].session)) =>
                    sessions[applied[i].session].result =
                        sessions[applied[i - 1].session].result

\* one session set the status, a second one set the same status after it; both
\* returned, and the status differs from the seeded one
C18_Witness ==
    /\ Len(applied) = 2
    /\ Repeats(2)
    /\ applied[2].status = Sold
    /\ Reported(applied[1].session)
    /\ Reported(applied[2].session)
    /\ sessions[applied[2].session].result.text.kind = "updated"
    /\ store[SharedId].status = Sold

-----------------------------------------------------------------------------
(* inventory_summary when the list was not obtained, checked under ToolSpec *)

\* C19: inventory_summary returns the empty-inventory text only when the store holds
\* zero records; when its list request is answered with a non-success status it
\* returns an error text instead.
C19_EmptyOnlyWhenStoreIsEmpty ==
    Called("inventory_summary") =>
        /\ Returned("inventory_empty") => store = EmptyStore
        /\ lastRequests[1].outcome = "http_500" => Returned("summary_error")

====
